---- MODULE Spec2Model ----
(***************************************************************************)
(* kinescope-dl: the download pipeline of kinescope/downloader.py          *)
(* (VideoDownloader) and its caller in kinescope-dl.py, as a state         *)
(* machine.  One run = one VideoDownloader instance: construction,         *)
(* download(), and the finalizer __del__ that removes the temp directory.  *)
(***************************************************************************)
EXTENDS Integers, Sequences, FiniteSets, TLC

VARIABLES
    pc,          \* position of the run (see the actions)
    err,         \* the exception that ended the run, "none" otherwise
    mpd,         \* self.mpd_master.periods[0].adaptation_sets, <<>> before it is fetched
    audio_only,  \* self.audio_only
    resolution,  \* download()'s resolution, <<>> for None
    key,         \* download()'s key: None or the hex key
    licenseResp, \* the license endpoint's response of this run, NoResponse before
    elements,    \* download()'s elements list
    el,          \* index of the element the for loops of download() are at
    idx,         \* _fetch_segments: index into segments_urls
    visited,     \* _fetch_segments: visited_urls
    tries,       \* _fetch_segment: iterations of range(5) that have failed
    files,       \* the files under self.temp_path
    output,      \* the file at the final output path
    tempExists,  \* whether the directory self.temp_path exists
    muxArgs,     \* the input paths handed to the muxer, <<>> before
    resList,     \* the caller's video_resolutions: <<>> before get_resolutions() returns
    resArg,      \* history: <<r>> once download() was called with resolution r
    raisedAt,    \* history: the position at which the exception err was raised
    log          \* history: network requests and subprocess events, in order

vars == <<pc, err, mpd, audio_only, resolution, key, licenseResp, elements, el,
          idx, visited, tries, files, output, tempExists, muxArgs, resList,
          resArg, raisedAt, log>>

-----------------------------------------------------------------------------
(* Bounds of the model *)

\* longest segment URL list drawn for a direct _fetch_segments call
MaxLen == 3

\* most video representations of a manifest whose tiers are listed
MaxReps == 3

(* Program constants *)

\* range(5) in _fetch_segment
MaxAttemptsOff == 5 - 1
MaxAttemptsMoreOff == 5 + 1
MaxAttempts == 5

None == "None"
audio_suffix == ".aac"
video_suffix == ".mp4"
enc_suffix == ".enc"
AudioMime == "audio/mp4"
VideoMime == "video/mp4"

-----------------------------------------------------------------------------
(* Values *)

\* A segment URL is base_url + media: the pair keeps both parts.
Url(base, media) == <<base, media>>

\* The URLs a direct _fetch_segments call is given.
FetchUrls == {Url("b", "s1"), Url("b", "s2"), Url("b", "s3")}

RECURSIVE SeqsUpTo(_, _)
SeqsUpTo(S, n) ==
    IF n = 0 THEN {<<>>}
    ELSE LET shorter == SeqsUpTo(S, n - 1)
         IN  shorter \cup {Append(s, x) : s \in {t \in shorter : Len(t) = n - 1}, x \in S}

\* The body the server returns for a segment URL.
Body(u) == <<"body", u>>

NoFile == [exists |-> FALSE, dec |-> None, data |-> <<>>]
EmptyFile == [exists |-> TRUE, dec |-> None, data |-> <<>>]

Tracks == {"Audio", "Video"}
Suffix(t) == IF t = "Audio" THEN audio_suffix ELSE video_suffix

\* tmp_path = Path(f'{tmp_base_path}_{el["type"]}{el["suffix"]}')
TmpPath(e) == <<e.type, e.suffix>>
\* enc_path = tmp_path.with_suffix(tmp_path.suffix + enc_suffix)
EncPath(e) == Append(TmpPath(e), enc_suffix)

Paths == {<<t, Suffix(t)>> : t \in Tracks} \cup {<<t, Suffix(t), enc_suffix>> : t \in Tracks}

NoOutput == [exists |-> FALSE, suffix |-> "", how |-> "none", inputs |-> <<>>]

NoUrl == Url("", "")
Event(op, track, url, res) == [op |-> op, track |-> track, url |-> url, res |-> res]

\* licenseResp before any response has been received
NoResponse == <<>>

-----------------------------------------------------------------------------
(* _fetch_segments / _fetch_segment *)

CurEl == elements[el]

\* fetch_path = el['enc_path'] if key else tmp_path
FetchPathTmpOff == TmpPath(CurEl)
FetchPath == IF key # None THEN EncPath(CurEl) ELSE TmpPath(CurEl)

RaiseOff(e) ==
    /\ pc' = pc
    /\ err' = e
    /\ raisedAt' = pc
Raise(e) ==
    /\ pc' = "failed"
    /\ err' = e
    /\ raisedAt' = pc

\* with open(filepath, 'wb') as f: the file is created or truncated.
FetchOpen ==
    /\ pc = "fetch_open"
    /\ IF tempExists
       THEN /\ files' = [files EXCEPT ![FetchPath] = EmptyFile]
            /\ visited' = {}
            /\ idx' = 1
            /\ tries' = 0
            /\ pc' = "fetch_loop"
            /\ UNCHANGED <<err, raisedAt>>
       ELSE /\ Raise("FileNotFoundError")
            /\ UNCHANGED <<files, visited, idx, tries>>
    /\ UNCHANGED <<mpd, audio_only, resolution, key, licenseResp, elements, el,
                   output, tempExists, muxArgs, log>>
    /\ UNCHANGED <<resList, resArg>>

\* if segment_url not in visited_urls: ... (else) progress_bar.update()
FetchSkip ==
    /\ pc = "fetch_loop"
    /\ idx <= Len(CurEl.url)
    /\ CurEl.url[idx] \in visited
    /\ idx' = idx + 1
    /\ UNCHANGED <<pc, err, raisedAt, mpd, audio_only, resolution, key, licenseResp, elements,
                   el, visited, tries, files, output, tempExists, muxArgs, log>>
    /\ UNCHANGED <<resList, resArg>>

\* visited_urls.add(segment_url)
MarkVisitedOff(v, u) == v
MarkVisited(v, u) == v \cup {u}

\* What the counter of failed attempts is when the next _fetch_segment call starts.
TriesAtCall(t) == 0

\* One iteration of the for loop of _fetch_segment for the current URL:
\* one GET, whose outcome is the server's.
\* except ChunkedEncodingError: the one failure the for-loop goes round on.
RetriedAnyOff(res) == res # "ok"
Retried(res) == res = "chunked"

\* .content reads the whole body before copyfileobj is reached, so a request
\* that raises has written nothing to the file.
WrittenOnErrorPartialOff(data, u) == Append(data, <<"partial", u>>)
WrittenOnError(data, u) == data

FetchRequest(res) ==
    /\ pc = "fetch_loop"
    /\ idx <= Len(CurEl.url)
    /\ CurEl.url[idx] \notin visited
    /\ LET u == CurEl.url[idx] IN
       /\ log' = Append(log, Event("get", CurEl.type, u, res))
       /\ CASE res = "ok" ->
                 \* copyfileobj(...); return; visited_urls.add; progress_bar.update()
                 /\ files' = [files EXCEPT ![FetchPath].data = Append(@, Body(u))]
                 /\ visited' = MarkVisited(visited, u)
                 /\ idx' = idx + 1
                 /\ tries' = TriesAtCall(tries)
                 /\ UNCHANGED <<pc, err, raisedAt>>
            [] Retried(res) ->
                 \* except ChunkedEncodingError: pass; after the loop: raise
                 /\ IF tries + 1 >= MaxAttempts
                    THEN Raise("SegmentDownloadError")
                    ELSE UNCHANGED <<pc, err, raisedAt>>
                 /\ tries' = tries + 1
                 /\ files' = [files EXCEPT ![FetchPath].data = WrittenOnError(@, u)]
                 /\ UNCHANGED <<visited, idx>>
            [] OTHER ->
                 \* any other exception of the request leaves _fetch_segment at once
                 /\ Raise("ConnectionError")
                 /\ files' = [files EXCEPT ![FetchPath].data = WrittenOnError(@, u)]
                 /\ UNCHANGED <<visited, idx, tries>>
    /\ UNCHANGED <<mpd, audio_only, resolution, key, licenseResp, elements, el,
                   output, tempExists, muxArgs>>
    /\ UNCHANGED <<resList, resArg>>

\* The for loop of _fetch_segments is over: the file is closed and the call
\* returns to the for loop of download().
FetchReturn ==
    /\ pc = "fetch_loop"
    /\ idx > Len(CurEl.url)
    /\ IF el < Len(elements)
       THEN /\ el' = el + 1
            /\ pc' = "fetch_open"
       ELSE /\ pc' = "fetched"
            /\ UNCHANGED el
    /\ UNCHANGED <<err, raisedAt, mpd, audio_only, resolution, key, licenseResp, elements,
                   idx, visited, tries, files, output, tempExists, muxArgs, log>>
    /\ UNCHANGED <<resList, resArg>>

Outcomes == {"ok", "chunked", "other"}

-----------------------------------------------------------------------------
(* The manifest: periods[0].adaptation_sets, each with its mime type,      *)
(* whether content_protections is non-empty, and its representations.      *)
(* An audio representation has no width and no height (0 here: falsy).     *)

AudioRep == [width |-> 0, height |-> 0, base_url |-> "a/", medias |-> <<"1", "2", "1">>]
R360 == [width |-> 640, height |-> 360, base_url |-> "v360/", medias |-> <<"1">>]
R720 == [width |-> 1280, height |-> 720, base_url |-> "v720/", medias |-> <<"1", "", "2">>]

AudioRepAlt == [width |-> 0, height |-> 0, base_url |-> "a2/", medias |-> <<"1">>]

AudioSet(p) == [mime_type |-> AudioMime, content_protections |-> p,
                representations |-> <<AudioRep>>]
VideoSet(p, rs) == [mime_type |-> VideoMime, content_protections |-> p,
                    representations |-> rs]

VideoRepSeqs == {<<R360>>, <<R720, R360>>}

Manifests ==
    {<<AudioSet(p)>> : p \in BOOLEAN}
    \cup {<<AudioSet(p), VideoSet(q, rs)>> : p \in BOOLEAN, q \in BOOLEAN, rs \in VideoRepSeqs}
    \cup {<<VideoSet(p, <<R360>>), AudioSet(q)>> : p \in BOOLEAN, q \in BOOLEAN}
    \cup {<< [mime_type |-> AudioMime, content_protections |-> FALSE,
               representations |-> <<AudioRep, AudioRepAlt>>],
              VideoSet(FALSE, <<R720, R360>>) >>}

\* The resolution arguments download() is called with; <<>> is None.
ResArgs == {<<>>, <<640, 360>>, <<1280, 720>>, <<1920, 1080>>}

\* The license endpoint's JSON answers: with or without 'keys', 'keys' empty
\* or not, its first object with or without 'k'.
LicenseResponses ==
    { [hasKeys |-> FALSE, keys |-> <<>>],
      [hasKeys |-> TRUE,  keys |-> <<>>],
      [hasKeys |-> TRUE,  keys |-> <<[hasK |-> FALSE, k |-> ""]>>],
      [hasKeys |-> TRUE,  keys |-> <<[hasK |-> TRUE, k |-> "cXdlcnR5"]>>] }

\* b64decode(k + '==').hex()
HexOfB64(k) == IF k = "cXdlcnR5" THEN "717765727479" ELSE "00"

-----------------------------------------------------------------------------
(* get_resolutions *)

\* sorted(representations, key=lambda r: r.height): a stable insertion sort
RECURSIVE InsertByHeight(_, _)
InsertByHeight(sorted, r) ==
    IF sorted = <<>> THEN <<r>>
    ELSE IF sorted[Len(sorted)].height <= r.height THEN Append(sorted, r)
    ELSE Append(InsertByHeight(SubSeq(sorted, 1, Len(sorted) - 1), r), sorted[Len(sorted)])

SortedByHeightOff(rs) == rs
RECURSIVE SortedByHeight(_)
SortedByHeight(rs) ==
    IF rs = <<>> THEN <<>>
    ELSE InsertByHeight(SortedByHeight(SubSeq(rs, 1, Len(rs) - 1)), rs[Len(rs)])

\* The first adaptation set whose first representation has a height; the
\* function falls off its end (returns None) when there is none.
get_resolutions(m) ==
    LET video == {i \in 1..Len(m) : m[i].representations[1].height # 0} IN
    IF video = {} THEN [isNone |-> TRUE, list |-> <<>>]
    ELSE LET i == CHOOSE j \in video : \A k \in video : j <= k
             rs == SortedByHeight(m[i].representations)
         IN  [isNone |-> FALSE,
              list |-> [n \in 1..Len(rs) |-> <<rs[n].width, rs[n].height>>]]

-----------------------------------------------------------------------------
(* _get_segments_urls *)

\* list.index: the first position of x, 0 when index raises ValueError
IndexOf(s, x) ==
    IF \E i \in 1..Len(s) : s[i] = x
    THEN CHOOSE i \in 1..Len(s) : s[i] = x /\ \A j \in 1..(i - 1) : s[j] # x
    ELSE 0

\* idx = resolutions.index(resolution) if representations[0].height else 0
RepIndexFirstOff(aset, r) == 1
RepIndex(aset, r) ==
    LET resolutions == [n \in 1..Len(aset.representations) |->
                          <<aset.representations[n].width, aset.representations[n].height>>]
    IN  IF aset.representations[1].height # 0 THEN IndexOf(resolutions, r) ELSE 1

\* [base_url + (segment_url.media or '') for segment_url in ... if segment_url.media]
RECURSIVE MediaUrls(_, _)
MediaUrls(base, medias) ==
    IF medias = <<>> THEN <<>>
    ELSE LET rest == MediaUrls(base, SubSeq(medias, 1, Len(medias) - 1))
             last == medias[Len(medias)]
         IN  IF last # "" THEN Append(rest, Url(base, last)) ELSE rest

\* The loop over the adaptation sets from set i on, result so far acc.
RECURSIVE SegmentsUrlsFrom(_, _, _, _)
SegmentsUrlsFrom(m, r, i, acc) ==
    IF i > Len(m) THEN [err |-> "none", result |-> acc]
    ELSE LET aset == m[i]
             k == RepIndex(aset, r)
         IN  IF k = 0 THEN [err |-> "InvalidResolution", result |-> acc]
             ELSE LET rep == aset.representations[k]
                      urls == MediaUrls(rep.base_url, rep.medias)
                  IN  SegmentsUrlsFrom(m, r, i + 1,
                         [x \in (DOMAIN acc) \cup {aset.mime_type} |->
                             IF x = aset.mime_type THEN urls ELSE acc[x]])

get_segments_urls(m, r) == SegmentsUrlsFrom(m, r, 1, [x \in {} |-> <<>>])

-----------------------------------------------------------------------------
(* Construction: __init__ *)

\* self.temp_path.mkdir(parents=True, exist_ok=True)
Construct ==
    /\ pc = "start"
    /\ \E ao \in BOOLEAN : audio_only' = ao
    /\ tempExists' = TRUE
    /\ pc' = "fetch_mpd"
    /\ UNCHANGED <<err, raisedAt, mpd, resolution, key, licenseResp, elements, el, idx,
                   visited, tries, files, output, muxArgs, log>>
    /\ UNCHANGED <<resList, resArg>>

\* self.mpd_master = self._fetch_mpd_master(): the request answers with a
\* manifest or raises, and then __init__ raises.
FetchMpdMaster ==
    /\ pc = "fetch_mpd"
    /\ \/ /\ \E m \in Manifests : mpd' = m
          /\ pc' = "constructed"
          /\ UNCHANGED <<err, raisedAt>>
       \/ /\ Raise("ManifestFetchError")
          /\ UNCHANGED mpd
    /\ log' = Append(log, Event("mpd", "", NoUrl, ""))
    /\ UNCHANGED <<audio_only, resolution, key, licenseResp, elements, el, idx,
                   visited, tries, files, output, tempExists, muxArgs>>
    /\ UNCHANGED <<resList, resArg>>

-----------------------------------------------------------------------------
(* download() *)

\* The caller lists the tiers before it downloads:
\* video_resolutions = downloader.get_resolutions()
ListResolutions ==
    /\ pc = "constructed"
    /\ resList' = <<get_resolutions(mpd)>>
    /\ pc' = "listed"
    /\ UNCHANGED <<err, raisedAt, mpd, audio_only, resolution, key, licenseResp, elements,
                   el, idx, visited, tries, files, output, tempExists, muxArgs, resArg, log>>

\* if not resolution: resolution = self.get_resolutions()[-1]
DownloadCall(r) ==
    /\ pc = "listed"
    /\ IF r = <<>>
       THEN LET gr == get_resolutions(mpd) IN
            IF gr.isNone
            THEN /\ Raise("TypeError")
                 /\ UNCHANGED resolution
            ELSE /\ resolution' = gr.list[Len(gr.list)]
                 /\ pc' = "license"
                 /\ UNCHANGED <<err, raisedAt>>
       ELSE /\ resolution' = r
            /\ pc' = "license"
            /\ UNCHANGED <<err, raisedAt>>
    /\ UNCHANGED <<mpd, audio_only, key, licenseResp, elements, el, idx, visited,
                   tries, files, output, tempExists, muxArgs, log>>
    /\ resArg' = <<r>>
    /\ UNCHANGED resList

\* ... if self.mpd_master.periods[0].adaptation_sets[0].content_protections else None
NeedsLicenseAlwaysOff(m) == TRUE
NeedsLicense(m) == m[1].content_protections

\* .json()['keys'][0]['k'], with the handler `except KeyError` around it
LicenseKeyOf(resp) ==
    IF ~resp.hasKeys THEN [err |-> "UnsupportedEncryption", key |-> None]
    ELSE IF Len(resp.keys) = 0 THEN [err |-> "IndexError", key |-> None]
    ELSE IF ~resp.keys[1].hasK THEN [err |-> "UnsupportedEncryption", key |-> None]
    ELSE [err |-> "none", key |-> HexOfB64(resp.keys[1].k)]

\* key = self._get_license_key()
GetLicenseKey ==
    /\ pc = "license"
    /\ IF NeedsLicense(mpd)
       THEN \E resp \in LicenseResponses :
               LET got == LicenseKeyOf(resp) IN
               /\ licenseResp' = <<resp>>
               /\ log' = Append(log, Event("license", "", NoUrl, ""))
               /\ IF got.err = "none"
                  THEN /\ key' = got.key
                       /\ pc' = "urls"
                       /\ UNCHANGED <<err, raisedAt>>
                  ELSE /\ Raise(got.err)
                       /\ UNCHANGED key
       ELSE /\ key' = None
            /\ pc' = "urls"
            /\ UNCHANGED <<err, raisedAt, licenseResp, log>>
    /\ UNCHANGED <<mpd, audio_only, resolution, elements, el, idx, visited, tries,
                   files, output, tempExists, muxArgs>>
    /\ UNCHANGED <<resList, resArg>>

\* The elements list: both _get_segments_urls calls are made, whatever
\* audio_only is; then `if self.audio_only: elements.pop()`.
BuildElements ==
    /\ pc = "urls"
    /\ LET got == get_segments_urls(mpd, resolution) IN
       IF got.err # "none"
       THEN /\ Raise(got.err)
            /\ UNCHANGED <<elements, el>>
       ELSE IF AudioMime \notin DOMAIN got.result \/ VideoMime \notin DOMAIN got.result
       THEN /\ Raise("KeyError")
            /\ UNCHANGED <<elements, el>>
       ELSE LET both == << [url |-> got.result[AudioMime], type |-> "Audio",
                            suffix |-> audio_suffix],
                           [url |-> got.result[VideoMime], type |-> "Video",
                            suffix |-> video_suffix] >>
            IN  /\ elements' = IF audio_only THEN SubSeq(both, 1, 1) ELSE both
                /\ el' = 1
                /\ pc' = "fetch_open"
                /\ UNCHANGED <<err, raisedAt>>
    /\ UNCHANGED <<mpd, audio_only, resolution, key, licenseResp, idx, visited,
                   tries, files, output, tempExists, muxArgs, log>>
    /\ UNCHANGED <<resList, resArg>>

\* if key: (the decrypt loop) -- else straight to the output step
KeyBranch ==
    /\ pc = "fetched"
    /\ IF key # None
       THEN /\ pc' = "decrypt"
            /\ el' = 1
       ELSE /\ pc' = "finish"
            /\ UNCHANGED el
    /\ UNCHANGED <<err, raisedAt, mpd, audio_only, resolution, key, licenseResp, elements,
                   idx, visited, tries, files, output, tempExists, muxArgs, log>>
    /\ UNCHANGED <<resList, resArg>>

DecryptStartSwallowOff ==
    /\ pc = "decrypt"
    /\ \E found \in BOOLEAN :
          IF found
          THEN /\ pc' = "decrypting"
               /\ log' = Append(log, Event("decrypt", CurEl.type, NoUrl, ""))
               /\ UNCHANGED <<err, raisedAt>>
          ELSE /\ pc' = "decrypting"
               /\ UNCHANGED <<err, raisedAt, log>>
    /\ UNCHANGED <<mpd, audio_only, resolution, key, licenseResp, elements, el,
                   idx, visited, tries, files, output, tempExists, muxArgs>>
    /\ UNCHANGED <<resList, resArg>>

\* _decrypt_video: Popen(...) starts mp4decrypt, or raises FileNotFoundError
\* when the executable is not there, which becomes FFmpegNotFoundError.
DecryptStart ==
    /\ pc = "decrypt"
    /\ \E found \in BOOLEAN :
          IF found
          THEN /\ pc' = "decrypting"
               /\ log' = Append(log, Event("decrypt", CurEl.type, NoUrl, ""))
               /\ UNCHANGED <<err, raisedAt>>
          ELSE /\ Raise("FFmpegNotFoundError")
               /\ UNCHANGED log
    /\ UNCHANGED <<mpd, audio_only, resolution, key, licenseResp, elements, el,
                   idx, visited, tries, files, output, tempExists, muxArgs>>
    /\ UNCHANGED <<resList, resArg>>

\* What mp4decrypt writes to target_filepath.
Decrypted(f, k) == [exists |-> TRUE, dec |-> k, data |-> f.data]

\* .communicate() returns: the tool has written target_filepath.
DecryptReturn ==
    /\ pc = "decrypting"
    /\ files' = [files EXCEPT ![TmpPath(CurEl)] = Decrypted(files[EncPath(CurEl)], key)]
    /\ log' = Append(log, Event("decrypt_ret", CurEl.type, NoUrl, ""))
    /\ IF el < Len(elements)
       THEN /\ el' = el + 1
            /\ pc' = "decrypt"
       ELSE /\ pc' = "finish"
            /\ UNCHANGED el
    /\ UNCHANGED <<err, raisedAt, mpd, audio_only, resolution, key, licenseResp, elements,
                   idx, visited, tries, output, tempExists, muxArgs>>
    /\ UNCHANGED <<resList, resArg>>

\* filepath = Path(filepath).with_suffix(elements[-1]['suffix'])
OutSuffixFirstOff(els) == els[1].suffix
OutSuffix(els) == els[Len(els)].suffix

\* [el['tmp_path'] for el in elements]
MuxInputsEncOff(els) == [i \in 1..Len(els) |-> EncPath(els[i])]
MuxInputs(els) == [i \in 1..Len(els) |-> TmpPath(els[i])]

\* if not self.audio_only: self._merge_tracks([el['tmp_path'] ...], filepath)
\* Popen(args) starts ffmpeg, or raises FileNotFoundError.
MuxStart ==
    /\ pc = "finish"
    /\ ~audio_only
    /\ \E found \in BOOLEAN :
          IF found
          THEN /\ pc' = "muxing"
               /\ muxArgs' = MuxInputs(elements)
               /\ log' = Append(log, Event("mux", "", NoUrl, ""))
               /\ UNCHANGED <<err, raisedAt>>
          ELSE /\ Raise("FFmpegNotFoundError")
               /\ UNCHANGED <<muxArgs, log>>
    /\ UNCHANGED <<mpd, audio_only, resolution, key, licenseResp, elements, el,
                   idx, visited, tries, files, output, tempExists>>
    /\ UNCHANGED <<resList, resArg>>

\* ffmpeg runs while communicate() waits: it writes the output file (-y).
MuxWrite ==
    /\ pc = "muxing"
    /\ output.how # "mux"
    /\ output' = [exists |-> TRUE, suffix |-> OutSuffix(elements), how |-> "mux",
                  inputs |-> [i \in 1..Len(muxArgs) |-> files[muxArgs[i]]]]
    /\ UNCHANGED <<pc, err, raisedAt, mpd, audio_only, resolution, key, licenseResp, elements,
                   el, idx, visited, tries, files, tempExists, muxArgs, log>>
    /\ UNCHANGED <<resList, resArg>>

\* .communicate() returns; download() returns.
MuxReturn ==
    /\ pc = "muxing"
    /\ output.how = "mux"
    /\ pc' = "done"
    /\ log' = Append(log, Event("mux_ret", "", NoUrl, ""))
    /\ UNCHANGED <<err, raisedAt, mpd, audio_only, resolution, key, licenseResp, elements,
                   el, idx, visited, tries, files, output, tempExists, muxArgs>>
    /\ UNCHANGED <<resList, resArg>>

\* else: move(elements[0]['tmp_path'], filepath); download() returns.
Move ==
    /\ pc = "finish"
    /\ audio_only
    /\ output' = [exists |-> TRUE, suffix |-> OutSuffix(elements), how |-> "move",
                  inputs |-> <<files[TmpPath(elements[1])]>>]
    /\ files' = [files EXCEPT ![TmpPath(elements[1])] = NoFile]
    /\ pc' = "done"
    /\ UNCHANGED <<err, raisedAt, mpd, audio_only, resolution, key, licenseResp, elements,
                   el, idx, visited, tries, tempExists, muxArgs, log>>
    /\ UNCHANGED <<resList, resArg>>

-----------------------------------------------------------------------------
(* The caller (kinescope-dl.py) and the end of the instance's life *)

Running == {"fetch_mpd", "constructed", "listed", "license", "urls", "fetch_open", "fetch_loop",
            "fetched", "decrypt", "decrypting", "finish", "muxing"}
Ended == {"done", "failed", "interrupted"}

\* KeyboardInterrupt while the run is under way: it unwinds to
\* `except KeyboardInterrupt` of the script.
Interrupt ==
    /\ pc \in Running
    /\ pc' = "interrupted"
    /\ UNCHANGED <<err, raisedAt, mpd, audio_only, resolution, key, licenseResp, elements,
                   el, idx, visited, tries, files, output, tempExists, muxArgs, log>>
    /\ UNCHANGED <<resList, resArg>>

\* When __del__ can run: the instance is referenced by the caller (and by
\* the frames of a propagating exception) until the run has ended.
CollectableOnSuccessOff == pc = "done"
Collectable == pc \in Ended

\* What rmtree(self.temp_path) leaves of the directory.
Rmtree(exists) == FALSE

\* __del__: rmtree(self.temp_path)
Del ==
    /\ Collectable
    /\ tempExists
    /\ tempExists' = Rmtree(tempExists)
    /\ files' = IF tempExists' THEN files ELSE [p \in Paths |-> NoFile]
    /\ UNCHANGED <<pc, err, raisedAt, mpd, audio_only, resolution, key, licenseResp, elements,
                   el, idx, visited, tries, output, muxArgs, log>>
    /\ UNCHANGED <<resList, resArg>>

\* Another VideoDownloader constructed on the same temp_dir (the default is
\* './temp' for all) is finalized between two calls on this one: its
\* __del__ runs rmtree on the directory they share.
OtherDel ==
    /\ pc \in {"constructed", "listed"}
    /\ tempExists
    /\ tempExists' = Rmtree(tempExists)
    /\ files' = IF tempExists' THEN files ELSE [p \in Paths |-> NoFile]
    /\ UNCHANGED <<pc, err, raisedAt, mpd, audio_only, resolution, key, licenseResp,
                   elements, el, idx, visited, tries, output, muxArgs, resList,
                   resArg, log>>

Init ==
    /\ pc = "start"
    /\ err = "none"
    /\ mpd = <<>>
    /\ audio_only = FALSE
    /\ resolution = <<>>
    /\ key = None
    /\ licenseResp = NoResponse
    /\ elements = <<>>
    /\ el = 1
    /\ idx = 1
    /\ visited = {}
    /\ tries = 0
    /\ files = [p \in Paths |-> NoFile]
    /\ output = NoOutput
    /\ tempExists = FALSE
    /\ muxArgs = <<>>
    /\ resList = <<>>
    /\ resArg = <<>>
    /\ raisedAt = "none"
    /\ log = <<>>

Next ==
    \/ Construct
    \/ FetchMpdMaster
    \/ ListResolutions
    \/ \E r \in ResArgs : DownloadCall(r)
    \/ GetLicenseKey
    \/ BuildElements
    \/ FetchOpen
    \/ FetchSkip
    \/ \E res \in Outcomes : FetchRequest(res)
    \/ FetchReturn
    \/ KeyBranch
    \/ DecryptStart
    \/ DecryptReturn
    \/ MuxStart
    \/ MuxWrite
    \/ MuxReturn
    \/ Move
    \/ Interrupt
    \/ Del

Spec == Init /\ [][Next]_vars

\* The interpreter runs the program on, and finalizes the instance once
\* nothing refers to it.
FairSpec == Spec /\ WF_vars(Next)

\* The run beside another instance that uses the same temp directory.
NextShared ==
    \/ Next
    \/ OtherDel

SpecShared == Init /\ [][NextShared]_vars

-----------------------------------------------------------------------------
(* A direct call of _fetch_segments(segments_urls, filepath, label) on a   *)
(* constructed instance, for every URL list up to MaxLen.                  *)

InitFetch ==
    /\ pc = "fetch_open"
    /\ err = "none"
    /\ mpd = <<>>
    /\ audio_only = TRUE
    /\ resolution = <<>>
    /\ key = None
    /\ licenseResp = NoResponse
    /\ \E l \in SeqsUpTo(FetchUrls, MaxLen) :
          elements = <<[url |-> l, type |-> "Audio", suffix |-> audio_suffix]>>
    /\ el = 1
    /\ idx = 1
    /\ visited = {}
    /\ tries = 0
    /\ files = [p \in Paths |-> NoFile]
    /\ output = NoOutput
    /\ tempExists = TRUE
    /\ muxArgs = <<>>
    /\ resList = <<>>
    /\ resArg = <<>>
    /\ raisedAt = "none"
    /\ log = <<>>

NextFetch ==
    \/ FetchOpen
    \/ FetchSkip
    \/ \E res \in Outcomes : FetchRequest(res)
    \/ FetchReturn

SpecFetch == InitFetch /\ [][NextFetch]_vars

\* Every request returns or raises, and the loop goes on to its next step.
FairSpecFetch == SpecFetch /\ WF_vars(NextFetch)

-----------------------------------------------------------------------------
(* Listing the tiers: a constructed instance whose manifest has up to      *)
(* MaxReps video representations of pairwise distinct heights, in any      *)
(* order, the video adaptation set before or after the audio one.          *)

R240 == [width |-> 426, height |-> 240, base_url |-> "v240/", medias |-> <<"1">>]
\* a portrait tier: the greatest height and not the greatest width
RTall == [width |-> 608, height |-> 1080, base_url |-> "v1080/", medias |-> <<"1">>]
RepPool == {R240, R360, R720, RTall}

DistinctHeights(rs) == \A i, j \in 1..Len(rs) : i # j => rs[i].height # rs[j].height

TierManifests ==
    LET seqs == {rs \in SeqsUpTo(RepPool, MaxReps) : rs # <<>> /\ DistinctHeights(rs)}
    IN  {<<AudioSet(FALSE), VideoSet(FALSE, rs)>> : rs \in seqs}
        \cup {<<VideoSet(FALSE, rs), AudioSet(FALSE)>> : rs \in seqs}

InitRes ==
    /\ pc = "constructed"
    /\ err = "none"
    /\ mpd \in TierManifests
    /\ audio_only = FALSE
    /\ resolution = <<>>
    /\ key = None
    /\ licenseResp = NoResponse
    /\ elements = <<>>
    /\ el = 1
    /\ idx = 1
    /\ visited = {}
    /\ tries = 0
    /\ files = [p \in Paths |-> NoFile]
    /\ output = NoOutput
    /\ tempExists = TRUE
    /\ muxArgs = <<>>
    /\ resList = <<>>
    /\ resArg = <<>>
    /\ raisedAt = "none"
    /\ log = <<Event("mpd", "", NoUrl, "")>>

NextRes ==
    \/ ListResolutions
    \/ \E r \in ResArgs : DownloadCall(r)

SpecRes == InitRes /\ [][NextRes]_vars

-----------------------------------------------------------------------------
(* Vocabulary of the properties *)

Range(s) == {s[i] : i \in DOMAIN s}

\* The URLs of a list without repetitions, in the order of first occurrence.
RECURSIVE Dedup(_)
Dedup(s) ==
    IF s = <<>> THEN <<>>
    ELSE LET d == Dedup(SubSeq(s, 1, Len(s) - 1))
         IN  IF s[Len(s)] \in Range(d) THEN d ELSE Append(d, s[Len(s)])

Bodies(us) == [i \in 1..Len(us) |-> Body(us[i])]

\* The segment requests issued for URL u of track t, in order.
GetsOf(t, u) == SelectSeq(log, LAMBDA e : e.op = "get" /\ e.track = t /\ e.url = u)
ResultsOf(t, u) == [i \in 1..Len(GetsOf(t, u)) |-> GetsOf(t, u)[i].res]
AllGets == SelectSeq(log, LAMBDA e : e.op = "get")
NoRequestFailed == \A i \in 1..Len(AllGets) : AllGets[i].res = "ok"
CountOp(op) == Len(SelectSeq(log, LAMBDA e : e.op = op))
CountOpOn(op, t) == Len(SelectSeq(log, LAMBDA e : e.op = op /\ e.track = t))
Times(n, x) == [i \in 1..n |-> x]

-----------------------------------------------------------------------------
(* C1: for every segment URL list, duplicates allowed, in which no request *)
(* fails, _fetch_segments issues exactly one request per distinct URL, and *)
(* the destination file ends as the bodies of the distinct URLs in the     *)
(* order of their first occurrence.                                        *)
C1_OneRequestPerDistinctUrl ==
    LET e == elements[1] IN
    NoRequestFailed =>
        /\ \A u \in Range(e.url) : Len(GetsOf(e.type, u)) <= 1
        /\ pc = "fetched" =>
              /\ \A u \in Range(e.url) : Len(GetsOf(e.type, u)) = 1
              /\ Len(log) = Cardinality(Range(e.url))
              /\ files[TmpPath(e)] = [exists |-> TRUE, dec |-> None,
                                      data |-> Bodies(Dedup(e.url))]

\* a list u, v, u with u # v has been fetched without a failure
C1_Witness ==
    LET l == elements[1].url IN
    /\ pc = "fetched"
    /\ NoRequestFailed
    /\ Len(l) = 3
    /\ l[1] = l[3]
    /\ l[1] # l[2]

(* C2: a segment whose request fails with the chunked-encoding error on    *)
(* attempts 1 to 4 and succeeds on attempt 5 is written and the fetch goes *)
(* on; one that fails on all 5 attempts raises SegmentDownloadError after  *)
(* exactly 5 requests for it and no request follows; the count of attempts *)
(* starts anew for every segment.                                          *)
C2_RetryFiveAttempts ==
    LET e == elements[1]
        last == log[Len(log)]
    IN  /\ \A u \in Range(e.url) :
             LET r == ResultsOf(e.type, u) IN
             /\ Len(r) <= 5
             /\ r = Append(Times(4, "chunked"), "ok") =>
                   /\ Len(SelectSeq(files[TmpPath(e)].data, LAMBDA b : b = Body(u))) = 1
                   /\ u \in visited
                   /\ idx > IndexOf(e.url, u)
                   /\ pc = "failed" => last.url # u
             /\ r = Times(5, "chunked") =>
                   /\ pc = "failed"
                   /\ err = "SegmentDownloadError"
                   /\ last.url = u
             /\ (r # <<>> /\ r # Times(5, "chunked") /\ r[Len(r)] = "chunked") =>
                   pc = "fetch_loop"
        /\ err = "SegmentDownloadError" =>
             ResultsOf(e.type, last.url) = Times(5, "chunked")

\* one segment succeeded on its 5th attempt, and the next one then failed 5 times
C2_Witness ==
    LET e == elements[1] IN
    /\ pc = "failed"
    /\ err = "SegmentDownloadError"
    /\ \E u \in Range(e.url) : ResultsOf(e.type, u) = Append(Times(4, "chunked"), "ok")
    /\ Len(log) = 10

-----------------------------------------------------------------------------
(* Vocabulary of the properties of a whole run *)

Protected == mpd # <<>> /\ mpd[1].content_protections
Unprotected == mpd # <<>> /\ ~mpd[1].content_protections
NoTempFiles == \A p \in Paths : ~files[p].exists

\* What a complete fetch of element e leaves in its file.
Fetched(e) == [exists |-> TRUE, dec |-> None, data |-> Bodies(Dedup(e.url))]

\* The place of an event in the order of the pipeline's steps.
Rank(e) ==
    CASE e.op = "mpd" -> 0
      [] e.op = "license" -> 1
      [] e.op = "get" /\ e.track = "Audio" -> 2
      [] e.op = "get" /\ e.track = "Video" -> 3
      [] e.op = "decrypt" /\ e.track = "Audio" -> 4
      [] e.op = "decrypt_ret" /\ e.track = "Audio" -> 5
      [] e.op = "decrypt" /\ e.track = "Video" -> 6
      [] e.op = "decrypt_ret" /\ e.track = "Video" -> 7
      [] e.op = "mux" -> 8
      [] e.op = "mux_ret" -> 9
      [] OTHER -> 10

\* A license response without the keys[0].k shape.
LacksKeyShape(resp) ==
    \/ ~resp.hasKeys
    \/ Len(resp.keys) = 0
    \/ ~resp.keys[1].hasK

-----------------------------------------------------------------------------
(* C3: on every fatal path the temp directory has been deleted by the time *)
(* the error reaches the caller of the constructor or of download().       *)
C3_TeardownBeforeErrorSurfaces ==
    pc = "failed" => ~tempExists

(* C4: every run, complete, failed at any step (the manifest fetch of the  *)
(* constructor included) or interrupted, eventually reaches a state in     *)
(* which its temp directory and all of its contents no longer exist.       *)
C4_TempDirEventuallyGone ==
    <>[](pc \in Ended /\ ~tempExists /\ NoTempFiles)

\* the constructor failed on the manifest and the temp directory is gone
C4_Witness ==
    /\ pc = "failed"
    /\ err = "ManifestFetchError"
    /\ ~tempExists

(* C5: whenever a run ends in a failure, that run has created or           *)
(* overwritten no file at the final output path.                           *)
C5_NoOutputOnFailure ==
    pc \in {"failed", "interrupted"} => output.how = "none"

(* C6: when the first adaptation set carries no content protection,        *)
(* _get_license_key returns no key, no license request is sent, and the    *)
(* decryptor is never invoked in that run.                                 *)
C6_UnprotectedNoRequestNoDecrypt ==
    Unprotected =>
        /\ key = None
        /\ licenseResp = NoResponse
        /\ CountOp("license") = 0
        /\ CountOp("decrypt") = 0
        /\ pc \notin {"decrypt", "decrypting"}
        /\ \A p \in Paths : files[p].dec = None

\* a two-track run of an unprotected manifest has completed
C6_Witness ==
    /\ Unprotected
    /\ pc = "done"
    /\ ~audio_only
    /\ Len(mpd) = 2
    /\ mpd[2].content_protections

(* C7: in a two-track run with a key the steps come in this order, each    *)
(* once: license request, audio segment fetches, video segment fetches,    *)
(* decrypt of audio, decrypt of video, one mux of the decrypted audio temp *)
(* path then the decrypted video temp path; no decrypt starts before both  *)
(* tracks are fetched and the mux does not start before both decrypts      *)
(* have returned.                                                          *)
C7_TwoTrackStepOrder ==
    (pc # "start" /\ ~audio_only /\ key # None) =>
        /\ \A i, j \in 1..Len(log) : i < j => Rank(log[i]) <= Rank(log[j])
        /\ CountOp("license") = 1
        /\ \A t \in Tracks : CountOpOn("decrypt", t) <= 1 /\ CountOpOn("decrypt_ret", t) <= 1
        /\ CountOp("mux") <= 1
        /\ (CountOp("decrypt") > 0 /\ tempExists) =>
              \A i \in 1..2 : files[EncPath(elements[i])] = Fetched(elements[i])
        /\ CountOp("mux") > 0 =>
              /\ CountOp("decrypt_ret") = 2
              /\ muxArgs = << <<"Audio", audio_suffix>>, <<"Video", video_suffix>> >>
              /\ tempExists =>
                    \A i \in 1..2 : files[muxArgs[i]] = Decrypted(Fetched(elements[i]), key)
        /\ pc = "done" =>
              /\ CountOp("decrypt") = 2
              /\ CountOp("mux") = 1
              /\ CountOp("mux_ret") = 1
              /\ output.inputs = [i \in 1..2 |-> Decrypted(Fetched(elements[i]), key)]

\* a two-track run with a key has completed
C7_Witness ==
    /\ pc = "done"
    /\ ~audio_only
    /\ key # None
    /\ CountOpOn("get", "Video") > 1

(* C8: in audio-only mode the muxer is never invoked, no video segment is  *)
(* requested, and on success the output is the single audio temp file,     *)
(* decrypted when a key exists and raw otherwise, moved to the output path *)
(* with the audio suffix; with audio-only off the muxer is invoked exactly *)
(* once and the output suffix is the video container suffix.               *)
C8_AudioOnlyMovesSingleTrack ==
    /\ (pc # "start" /\ audio_only) =>
          /\ CountOp("mux") = 0
          /\ CountOpOn("get", "Video") = 0
          /\ output.how # "mux"
          /\ pc = "done" =>
                /\ Len(elements) = 1
                /\ output = [exists |-> TRUE, suffix |-> audio_suffix, how |-> "move",
                             inputs |-> << IF key # None
                                           THEN Decrypted(Fetched(elements[1]), key)
                                           ELSE Fetched(elements[1]) >>]
                /\ ~files[<<"Audio", audio_suffix>>].exists
    /\ (pc # "start" /\ ~audio_only) =>
          /\ CountOp("mux") <= 1
          /\ output.how # "move"
          /\ pc = "done" =>
                /\ CountOp("mux") = 1
                /\ output.exists
                /\ output.how = "mux"
                /\ output.suffix = video_suffix

\* an audio-only run with a key has completed
C8_Witness ==
    /\ pc = "done"
    /\ audio_only
    /\ key # None

(* C9: an audio-only download needs nothing from the video adaptation set: *)
(* it does not fail for want of a video adaptation set or of a matching    *)
(* resolution, so its outcome does not depend on the resolution argument.  *)
C9_AudioOnlyIgnoresVideo ==
    (audio_only /\ pc = "failed") =>
        err \notin {"TypeError", "KeyError", "InvalidResolution"}

(* C10: for every license response that lacks the keys[0].k shape,         *)
(* _get_license_key fails with the unsupported-encryption error after      *)
(* exactly one license request, and no segment is fetched in that run.     *)
C10_BadLicenseShapeUnsupported ==
    (licenseResp # NoResponse /\ LacksKeyShape(licenseResp[1])) =>
        /\ pc = "failed"
        /\ err = "UnsupportedEncryption"
        /\ CountOp("license") = 1
        /\ CountOp("get") = 0

-----------------------------------------------------------------------------
(* Vocabulary of the properties of the resolution *)

\* The adaptation sets of the manifest whose representations carry a height.
VideoSets == {i \in 1..Len(mpd) : mpd[i].representations[1].height # 0}
AudioSets == {i \in 1..Len(mpd) : mpd[i].representations[1].height = 0}
VideoReps == UNION {Range(mpd[i].representations) : i \in VideoSets}
Matching == {r \in VideoReps : <<r.width, r.height>> = resolution}

\* download() was entered with the video track requested and a resolution
\* that is no video representation's.
VideoMismatch ==
    /\ pc # "start"
    /\ ~audio_only
    /\ resArg # <<>>
    /\ mpd # <<>>
    /\ err # "TypeError"
    /\ Matching = {}

\* What a run has done of the steps that follow the resolution of the URLs.
NothingFetched ==
    /\ elements = <<>>
    /\ CountOp("get") = 0
    /\ NoTempFiles
    /\ output.how = "none"
    /\ pc \in {"listed", "license", "urls", "failed", "interrupted"}

C12_ResolutionsSortedByHeight ==
    LET highest == {r \in VideoReps : \A q \in VideoReps : q.height <= r.height} IN
    /\ resList # <<>> =>
          LET got == resList[1].list IN
          /\ ~resList[1].isNone
          /\ Len(got) = Cardinality(VideoReps)
          /\ Range(got) = {<<r.width, r.height>> : r \in VideoReps}
          /\ \A i, j \in 1..Len(got) : i < j => got[i][2] < got[j][2]
          /\ \A r \in highest : got[Len(got)] = <<r.width, r.height>>
    /\ (resArg = << <<>> >> /\ pc = "license") =>
          \A r \in highest : resolution = <<r.width, r.height>>

\* three tiers, given out of height order, were listed and download() was
\* called without a resolution
C12_Witness ==
    /\ resList # <<>>
    /\ Len(resList[1].list) = 3
    /\ \E i \in VideoSets : mpd[i].representations[1].height > mpd[i].representations[2].height
    /\ resArg = << <<>> >>
    /\ pc = "license"
    /\ resolution = <<608, 1080>>

(* C13: when the decryptor executable (with a key) or the muxer executable *)
(* (in two-track mode) cannot be started, the run fails with the           *)
(* tool-not-found error, no later step of the pipeline runs and no output  *)
(* file is produced; with no key a missing decryptor causes no error.      *)
C13_ToolNotFoundIsFatal ==
    /\ err = "FFmpegNotFoundError" =>
          /\ pc = "failed"
          /\ raisedAt \in {"decrypt", "finish"}
          /\ output.how = "none"
          /\ CountOp("mux") = 0
          /\ raisedAt = "decrypt" =>
                /\ key # None
                /\ \A i \in el..Len(elements) :
                      /\ CountOpOn("decrypt", elements[i].type) = 0
                      /\ tempExists => ~files[TmpPath(elements[i])].exists
          /\ raisedAt = "finish" => ~audio_only
    /\ \A t \in Tracks : CountOpOn("decrypt_ret", t) <= CountOpOn("decrypt", t)
    /\ CountOp("mux_ret") <= CountOp("mux")
    /\ key = None =>
          /\ raisedAt # "decrypt"
          /\ CountOp("decrypt") = 0
          /\ audio_only => err # "FFmpegNotFoundError"

\* the decryptor could not be started for the video track of a run with a key
C13_Witness ==
    /\ err = "FFmpegNotFoundError"
    /\ raisedAt = "decrypt"
    /\ key # None
    /\ el = 2

(* C14: the teardown of one downloader instance never deletes what another *)
(* instance still needs, also when both use the same temp directory path:  *)
(* while a run is under way its temp directory exists, and no run fails    *)
(* for a missing temp directory.                                           *)
C14_WorkspaceOwnedByOneInstance ==
    /\ pc \in (Running \ {"fetch_mpd"}) => tempExists
    /\ err # "FileNotFoundError"

\* The errors of the taxonomy that download() can raise.
Taxonomy == {"UnsupportedEncryption", "InvalidResolution", "SegmentDownloadError",
             "FFmpegNotFoundError"}

\* Two events are attempts at the same step.
SameStep(a, b) == a.op = b.op /\ a.track = b.track /\ a.url = b.url

(* C15: every error of the taxonomy is fatal for the run: once one has     *)
(* been raised the run issues no further request and starts no further     *)
(* subprocess, and the only step that is ever attempted again is a segment *)
(* request that failed with the chunked-encoding error, retried at once.   *)
C15_TaxonomyErrorsAreFatal ==
    /\ [](err \in Taxonomy => pc = "failed")
    /\ [][(err \in Taxonomy) => (log' = log /\ pc' = pc /\ err' = err /\ output' = output)]_vars
    /\ [](\A i, j \in 1..Len(log) :
             (i < j /\ SameStep(log[i], log[j])) =>
                 /\ log[i].op = "get"
                 /\ log[i].res = "chunked"
                 /\ SameStep(log[i], log[i + 1]))

\* the video track's fetch has given up on a segment after the audio track was fetched
C15_Witness ==
    /\ pc = "failed"
    /\ err = "SegmentDownloadError"
    /\ el = 2
    /\ CountOpOn("get", "Audio") > 0

\* The bodies of the answered segment requests of track t, in order.
OkBodies(t) ==
    LET oks == SelectSeq(log, LAMBDA e : e.op = "get" /\ e.track = t /\ e.res = "ok")
    IN  [i \in 1..Len(oks) |-> Body(oks[i].url)]

(* C16: for every track, segments are written to the '.enc' path if and    *)
(* only if a key exists: with a key the temp path is written only by the   *)
(* decryptor, never by the fetcher; without a key the fetcher writes the   *)
(* temp path directly and no '.enc' file is created.                       *)
C16_EncPathIffKey ==
    \A i \in 1..Len(elements) :
        LET e == elements[i]
            tmp == files[TmpPath(e)]
            enc == files[EncPath(e)]
            requested == CountOpOn("get", e.type) > 0
        IN  /\ key # None =>
                  /\ enc.exists => (enc.dec = None /\ enc.data = OkBodies(e.type))
                  /\ (tempExists /\ requested) => enc.exists
                  /\ tmp.exists =>
                        /\ CountOpOn("decrypt_ret", e.type) = 1
                        /\ tmp = Decrypted(enc, key)
                  /\ (tempExists /\ output.how # "move") =>
                        (tmp.exists <=> CountOpOn("decrypt_ret", e.type) = 1)
            /\ key = None =>
                  /\ ~enc.exists
                  /\ tmp.exists => (tmp.dec = None /\ tmp.data = OkBodies(e.type))
                  /\ (tempExists /\ requested /\ output.how # "move") => tmp.exists

\* both tracks of a run with a key are fetched and decrypted
C16_Witness ==
    /\ pc = "finish"
    /\ key # None
    /\ ~audio_only
    /\ \A i \in 1..2 : files[EncPath(elements[i])].exists /\ files[TmpPath(elements[i])].exists

\* The number of distinct URLs of the fetched list.
Distinct == Cardinality(Range(elements[1].url))

(* C17: every call of _fetch_segments ends, with success or with an error: *)
(* for a list with D distinct URLs it issues at most 5*D requests, and     *)
(* exactly D when no request fails.                                        *)
C17_FetchTerminatesWithinBudget ==
    /\ [](/\ Len(log) = Len(AllGets)
          /\ Len(log) <= 5 * Distinct
          /\ (pc = "fetched" /\ NoRequestFailed) => Len(log) = Distinct)
    /\ <>(pc \in {"fetched", "failed"})

\* a list of two distinct URLs was fetched with every segment answered on its 5th attempt
C17_Witness ==
    /\ pc = "fetched"
    /\ Distinct = 2
    /\ Len(log) = 5 * Distinct

(* C18: at every point of a _fetch_segments call the destination file's    *)
(* content is a prefix of the bodies of the distinct URLs in the order of  *)
(* first occurrence: a failed attempt appends nothing, a segment that      *)
(* succeeds after retries is appended exactly once.                        *)
C18_FileIsPrefixOfDistinctBodies ==
    LET e == elements[1]
        data == files[TmpPath(e)].data
        full == Bodies(Dedup(e.url))
    IN  /\ Len(data) <= Len(full)
        /\ data = SubSeq(full, 1, Len(data))
        /\ data = OkBodies(e.type)
        /\ \A u \in Range(e.url) :
              Len(SelectSeq(data, LAMBDA b : b = Body(u))) =
                  (IF u \in visited THEN 1 ELSE 0)
        /\ pc = "fetched" => data = full

\* a segment answered on a retry is in the file, followed by a later segment, and
\* the next request has just failed
C18_Witness ==
    LET e == elements[1] IN
    /\ Len(files[TmpPath(e)].data) = 2
    /\ \E u \in visited : Len(ResultsOf(e.type, u)) > 1
    /\ log[Len(log)].res = "chunked"

\* Some request of the call failed otherwise than with the chunked-encoding error.
OtherFailures == {i \in 1..Len(log) : log[i].res = "other"}

(* C19 as stated: a failure other than the chunked-encoding error leaves   *)
(* _fetch_segment on its first occurrence, after exactly one request for   *)
(* that URL, is not converted to SegmentDownloadError, and the URL is not  *)
(* marked as visited.                                                      *)
C19_OtherFailureAfterOneRequest ==
    \A i \in OtherFailures :
        /\ pc = "failed"
        /\ err = "ConnectionError"
        /\ i = Len(log)
        /\ Len(GetsOf(log[i].track, log[i].url)) = 1
        /\ log[i].url \notin visited

(* C19 amended: a failure other than the chunked-encoding error leaves     *)
(* _fetch_segment on its first occurrence: it is the last request of the   *)
(* run, preceded for that URL only by at most 4 requests that failed with  *)
(* the chunked-encoding error (exactly one request when there were none),  *)
(* is not converted to SegmentDownloadError, the URL is not marked as      *)
(* visited and nothing of it is written.                                   *)
C19_OtherFailureNotRetried ==
    /\ \A i \in OtherFailures :
          LET u == log[i].url
              r == ResultsOf(log[i].track, u)
          IN  /\ pc = "failed"
              /\ err = "ConnectionError"
              /\ i = Len(log)
              /\ Len(r) <= 5
              /\ r = Append(Times(Len(r) - 1, "chunked"), "other")
              /\ u \notin visited
              /\ Body(u) \notin Range(files[TmpPath(elements[1])].data)
    /\ err = "ConnectionError" => OtherFailures # {}

\* a request failed with a connection error after the same URL had failed
\* with the chunked-encoding error
C19_Witness ==
    /\ OtherFailures # {}
    /\ Len(GetsOf(log[Len(log)].track, log[Len(log)].url)) > 1

====
